---- MODULE Spec2Model ----
(***************************************************************************)
(* The continuation state machine of the AI-assisted editor                *)
(* (src/src/machines/editorMachine.ts, first machine of the file) and the  *)
(* events the editor component sends it (src/src/components/editor.tsx),  *)
(* and the handler of POST /api/continue-writing that the machine's        *)
(* service calls (server.js in src/unnamed/part_000).                      *)
(*                                                                         *)
(* A text is a sequence of one-character strings.  A nullable field is     *)
(* None (null / undefined) or Some(v).                                     *)
(***************************************************************************)
EXTENDS Integers, Sequences, FiniteSets, TLC

\* ------------------------------------------------------------------ bounds

\* Entries to loading explored by Spec.
MaxRequests == 3
\* Entries to loading explored by SpecHistory (more than the history keeps).
DeepRequests == 12
\* UPDATE / UNDO / CLEAR / failure steps explored by SpecHistory.
DeepEdits == 2

\* Entries to loading explored by SpecRetry.
RetryRequests == 2

\* Entries to loading explored by SpecServer.
ServedRequests == 1
\* Entries to loading explored by SpecLive.
LiveRequests == 2
\* UPDATE / failure steps explored by SpecServer.
ServedEdits == 2

\* ------------------------------------------------------------------ values

None == <<>>
Some(v) == <<v>>
IsNone(o) == o = <<>>
Get(o) == o[1]

Whitespace == {" ", "\t", "\n"}

Min(a, b) == IF a < b THEN a ELSE b
Max(a, b) == IF a > b THEN a ELSE b

\* String.prototype.trim
RECURSIVE TrimStart(_)
TrimStart(s) ==
  IF s # <<>> /\ Head(s) \in Whitespace THEN TrimStart(Tail(s)) ELSE s

RECURSIVE TrimEnd(_)
TrimEnd(s) ==
  IF s # <<>> /\ s[Len(s)] \in Whitespace
    THEN TrimEnd(SubSeq(s, 1, Len(s) - 1))
    ELSE s

Trim(s) == TrimEnd(TrimStart(s))

\* s.trim() ? s.trim().split(/\s+/).length : 0
CountWords(s) ==
  LET t == Trim(s) IN
    IF t = <<>> THEN 0
    ELSE 1 + Cardinality({i \in 1..(Len(t) - 1) :
                            t[i] \in Whitespace /\ t[i + 1] \notin Whitespace})

\* Array.prototype.slice(-n) and String.prototype.slice(i)
SliceLast(s, n) == SubSeq(s, Max(1, Len(s) - n + 1), Len(s))
SliceFrom(s, i) == SubSeq(s, Min(i, Len(s)) + 1, Len(s))

\* String.prototype.charAt
CharAt(s, i) == IF i >= 0 /\ i < Len(s) THEN <<s[i + 1]>> ELSE <<>>

\* a || b on a nullable string: null, undefined and "" are falsy
OrElse(o, d) == IF IsNone(o) \/ Get(o) = <<>> THEN d ELSE Get(o)

\* the characters of a string literal
Chars(str) == [i \in 1..Len(str) |-> SubSeq(str, i, i)]

UpperCase == Chars("ABCDEFGHIJKLMNOPQRSTUVWXYZ")
LowerCase == Chars("abcdefghijklmnopqrstuvwxyz")

\* String.prototype.toLowerCase
toLowerCase(s) ==
  [i \in 1..Len(s) |->
     IF \E k \in 1..Len(UpperCase) : UpperCase[k] = s[i]
       THEN LowerCase[CHOOSE k \in 1..Len(UpperCase) : UpperCase[k] = s[i]]
       ELSE s[i]]

\* String.prototype.startsWith, endsWith, includes
startsWith(s, p) == Len(p) <= Len(s) /\ SubSeq(s, 1, Len(p)) = p
endsWith(s, p) == Len(p) <= Len(s) /\ SliceLast(s, Len(p)) = p
includes(s, p) ==
  \E i \in 0..(Len(s) - Len(p)) : SubSeq(s, i + 1, i + Len(p)) = p

\* String.prototype.split on a pattern that matches the maximal runs of the
\* characters of seps, such as /\s+/ and /[.!?]+/
RECURSIVE split(_, _)
split(s, seps) ==
  IF \A i \in 1..Len(s) : s[i] \notin seps THEN <<s>>
  ELSE LET from == CHOOSE i \in 1..Len(s) :
                     s[i] \in seps /\ \A j \in 1..(i - 1) : s[j] \notin seps
           to == CHOOSE i \in (from + 1)..(Len(s) + 1) :
                   /\ i = Len(s) + 1 \/ s[i] \notin seps
                   /\ \A j \in from..(i - 1) : s[j] \in seps IN
         <<SubSeq(s, 1, from - 1)>> \o split(SubSeq(s, to, Len(s)), seps)

\* Array.prototype.join
RECURSIVE join(_, _)
join(pieces, sep) ==
  IF pieces = <<>> THEN <<>>
  ELSE IF Len(pieces) = 1 THEN pieces[1]
  ELSE pieces[1] \o sep \o join(Tail(pieces), sep)

\* pieces.filter(s => s.trim())
RECURSIVE filterTrim(_)
filterTrim(pieces) ==
  IF pieces = <<>> THEN <<>>
  ELSE (IF Trim(Head(pieces)) # <<>> THEN <<Head(pieces)>> ELSE <<>>)
         \o filterTrim(Tail(pieces))

SetMax(S) == CHOOSE x \in S : \A y \in S : y <= x

\* ------------------------------------------------------------------ server
\* POST /api/continue-writing of server.js: the stages that remove from the
\* generated continuation what it repeats of the text it continues.

\* Strategy 1: the continuation starts with the full original text
Strategy1(text, continuation) ==
  LET textLower == Trim(toLowerCase(text))
      continuationLower == toLowerCase(continuation) IN
    IF startsWith(continuationLower, textLower)
      THEN Trim(SliceFrom(continuation, Len(text)))
      ELSE continuation

\* words.slice(-wordCount).join(' ')
lastNWords(words, wordCount) == join(SliceLast(words, wordCount), <<" ">>)

\* Strategy 2: the last 20 words down to 3 words; continuationLower is the
\* constant computed before Strategy 1
\* mutant: what is left is taken from the lower-cased continuation
Strategy2_Lowered(text, continuation, continuationLower) ==
  LET words == split(Trim(text), Whitespace)
      found == {wordCount \in 3..Min(Len(words), 20) :
                  startsWith(continuationLower,
                             toLowerCase(lastNWords(words, wordCount)))} IN
    IF found = {} THEN continuation
    ELSE Trim(SliceFrom(toLowerCase(continuation),
                        Len(lastNWords(words, SetMax(found)))))

Strategy2(text, continuation, continuationLower) ==
  LET words == split(Trim(text), Whitespace)
      found == {wordCount \in 3..Min(Len(words), 20) :
                  startsWith(continuationLower,
                             toLowerCase(lastNWords(words, wordCount)))} IN
    IF found = {} THEN continuation
    ELSE Trim(SliceFrom(continuation, Len(lastNWords(words, SetMax(found)))))

minMatchLength == 10

\* Strategy 3: the longest end of the text, of at least minMatchLength
\* characters, that the continuation starts with
maxMatch(text, continuation) ==
  LET found == {i \in minMatchLength..Min(Len(text), Len(continuation)) :
                  toLowerCase(SliceLast(text, i))
                    = toLowerCase(SubSeq(continuation, 1, i))} IN
    IF found = {} THEN 0 ELSE SetMax(found)

\* mutant: an overlap of any length counts as a repetition
Strategy3_AnyLength(text, continuation) ==
  LET found == {i \in 1..Min(Len(text), Len(continuation)) :
                  toLowerCase(SliceLast(text, i))
                    = toLowerCase(SubSeq(continuation, 1, i))} IN
    IF found = {} THEN continuation
    ELSE Trim(SliceFrom(continuation, SetMax(found)))

Strategy3(text, continuation) ==
  IF maxMatch(text, continuation) > 0
    THEN Trim(SliceFrom(continuation, maxMatch(text, continuation)))
    ELSE continuation

\* sentences.slice(-i).join('.').trim()
lastSentences(sentences, i) == Trim(join(SliceLast(sentences, i), <<".">>))

\* Strategy 4: the last sentences of the text, as many as match;
\* continuationLower is the constant computed before Strategy 1
Strategy4(text, continuation, continuationLower) ==
  LET sentences == filterTrim(split(text, {".", "!", "?"}))
      found == {i \in 1..Len(sentences) :
                  /\ lastSentences(sentences, i) # <<>>
                  /\ startsWith(continuationLower,
                                toLowerCase(lastSentences(sentences, i)))} IN
    IF found = {} THEN continuation
    ELSE Trim(SliceFrom(continuation,
                        Len(lastSentences(sentences, SetMax(found)))))

\* mutant: only the first leading character is replaced
CleanUp_First(continuation) ==
  IF continuation # <<>>
       /\ Head(continuation) \in {".", ",", ";", ":"} \cup Whitespace
    THEN Trim(Tail(continuation))
    ELSE Trim(continuation)

\* continuation.replace(/^[.\s,;:]+/, '').trim()
RECURSIVE CleanUp(_)
CleanUp(continuation) ==
  IF continuation # <<>>
       /\ Head(continuation) \in {".", ",", ";", ":"} \cup Whitespace
    THEN CleanUp(Tail(continuation))
    ELSE Trim(continuation)

\* mutant: the space is prepended also before punctuation
EnsureSpacing_BeforePunctuation(text, continuation) ==
  IF continuation # <<>> /\ ~endsWith(text, <<" ">>)
    THEN <<" ">> \o continuation
    ELSE continuation

\* a space before the continuation unless the text ends with one or the
\* continuation starts with punctuation
EnsureSpacing(text, continuation) ==
  IF /\ continuation # <<>>
     /\ ~endsWith(text, <<" ">>)
     /\ Head(continuation) \notin {".", ",", "!", "?", ";", ":"}
    THEN <<" ">> \o continuation
    ELSE continuation

\* the continuation after response.text().trim() and after each stage
stages(text, raw) ==
  LET s0 == Trim(raw)
      continuationLower == toLowerCase(s0)
      s1 == Strategy1(text, s0)
      s2 == Strategy2(text, s1, continuationLower)
      s3 == Strategy3(text, s2)
      s4 == Strategy4(text, s3, continuationLower)
      s5 == CleanUp(s4) IN
    <<s0, s1, s2, s3, s4, s5, EnsureSpacing(text, s5)>>

\* the text of the response
clean(text, raw) == stages(text, raw)[7]

\* a response of the handler: res.status(...).json({ text | error })
Response(status, text, error) ==
  [status |-> status, text |-> text, error |-> error]

\* mutant: the quota test comes before the API key test
catchError_QuotaFirst(error) ==
  IF ~IsNone(error.message) /\ includes(Get(error.message), Chars("quota"))
    THEN Response(429, None, Some("API quota exceeded. Please try again later."))
  ELSE IF ~IsNone(error.message) /\ includes(Get(error.message), Chars("API key"))
    THEN Response(401, None, Some("Invalid API key. Please check your Gemini API key."))
  ELSE Response(500, None, Some("Failed to generate continuation. Please try again."))

\* the catch block: what the handler answers when generating threw
catchError(error) ==
  IF ~IsNone(error.message) /\ includes(Get(error.message), Chars("API key"))
    THEN Response(401, None, Some("Invalid API key. Please check your Gemini API key."))
  ELSE IF ~IsNone(error.message) /\ includes(Get(error.message), Chars("quota"))
    THEN Response(429, None, Some("API quota exceeded. Please try again later."))
  ELSE Response(500, None, Some("Failed to generate continuation. Please try again."))

\* ------------------------------------------------------------------ inputs

UpdateTexts == {<<>>, <<" ">>, <<"a">>}
Continuations == {None, Some(<<>>), Some(<<"b">>), Some(<<" ", "b">>)}
Stats == {[wordCount |-> CountWords(d), charCount |-> Len(d)] :
            d \in UpdateTexts \cup {<<"a", " ", "b">>}}

\* what a failed call carries: the body of a non-ok response, or the
\* message of the exception fetch threw
Failures ==
  {[kind |-> "http", error |-> Some("Invalid API key. Please check your Gemini API key.")],
   [kind |-> "http", error |-> Some("API quota exceeded. Please try again later.")],
   [kind |-> "http", error |-> Some("Text is required to continue writing")],
   [kind |-> "http", error |-> None],
   [kind |-> "network", message |-> "Failed to fetch"],
   [kind |-> "network", message |-> ""]}

Wide ==
  [requests |-> MaxRequests, edits |-> -1, mock |-> "any",
   texts |-> UpdateTexts, conts |-> Continuations, stats |-> Stats,
   failures |-> Failures]

\* many continuations of one character each, few edits
Deep ==
  [requests |-> DeepRequests, edits |-> DeepEdits, mock |-> "any",
   texts |-> {<<"a">>}, conts |-> {Some(<<"b">>)},
   stats |-> {[wordCount |-> 1, charCount |-> 1]},
   failures |-> {[kind |-> "http", error |-> None]}]

\* the generator fails on the first request and succeeds from the second on
FailsOnce ==
  [requests |-> RetryRequests, edits |-> -1, mock |-> "failsOnce",
   texts |-> UpdateTexts \cup {<<"a", " ">>}, conts |-> Continuations,
   stats |-> Stats, failures |-> Failures]

\* every event, few inputs: explored under fairness
Live ==
  [requests |-> LiveRequests, edits |-> -1, mock |-> "any",
   texts |-> {<<>>, <<"a">>}, conts |-> {Some(<<>>), Some(<<"b">>)},
   stats |-> {[wordCount |-> 1, charCount |-> 1]},
   failures |-> {[kind |-> "network", message |-> "Failed to fetch"]}]

\* the texts the user types in SpecServer
Originals ==
  {Chars("The cat sat."), Chars("I love the quiet morning air"),
   Chars("Hello world"), Chars("Wait! Is it? Yes ")}

\* what a generator writes after what it repeats
NewTexts ==
  {<<>>, Chars("Then it slept."), Chars("was perfect for reading."),
   Chars("Goodbye moon."), Chars("... and more"), Chars("! So?")}

\* what a generator may repeat of the text it was given: nothing, all of it,
\* its last words, its last characters, its last sentences
Echoes(text) ==
  LET words == split(Trim(text), Whitespace)
      sentences == filterTrim(split(text, {".", "!", "?"})) IN
    {<<>>, text, toLowerCase(text)}
      \cup {lastNWords(words, w) : w \in 1..Len(words)}
      \cup {SliceLast(text, i) : i \in {9, 10, 11}}
      \cup {lastSentences(sentences, k) : k \in 1..Len(sentences)}

\* the outputs of the generator for a text
Raws(text) ==
  {e \o sep \o n : e \in Echoes(text), sep \in {<<>>, <<" ">>}, n \in NewTexts}

\* the errors generating may throw
ProviderErrors ==
  {[message |-> Some(Chars("API key not valid. Please pass a valid API key."))],
   [message |-> Some(Chars("You exceeded your current quota"))],
   [message |-> Some(Chars("quota exceeded for this API key"))],
   [message |-> Some(Chars("fetch failed"))],
   [message |-> None]}

\* ------------------------------------------------------------------ state

VARIABLES
  state,      \* the machine's state value: idle, loading, typing, error
  ctx,        \* the machine's context (EditorContext)
  inflight,   \* invoked continueWriter services that have not settled
  lastEvent,  \* the event dispatched last and the state it was sent in
  reveal,     \* the text on the last entry to loading, the event that
              \* caused the entry, the continuation
              \* it produced and the ticks sent since entering typing
  snaps,      \* the texts snapshotted by the entries to loading so far,
              \* while no UNDO and no failure has happened
  nReq,       \* entries to loading so far
  nEdit,      \* edits and failures so far (counted only when bounded)
  effect,     \* the typing effect of the Editor component: the state value
              \* it last ran for and whether its interval is set
  srv         \* the server's handler of POST /api/continue-writing: where
              \* it is, the request it last received, what generating gave
              \* or threw, the continuation after each stage, the response

vars ==
  <<state, ctx, inflight, lastEvent, reveal, snaps, nReq, nEdit, effect, srv>>

States == {"idle", "loading", "typing", "error"}

\* the context the machine is created with
context ==
  [text |-> <<>>, wordCount |-> 0, charCount |-> 0, history |-> <<>>,
   error |-> None, generatedText |-> None, typingIndex |-> 0,
   isTyping |-> FALSE]

Init ==
  /\ state = "idle"
  /\ ctx = context
  /\ inflight = 0
  /\ lastEvent = [type |-> "xstate.init", from |-> "idle"]
  /\ reveal = None
  /\ snaps = Some(<<>>)
  /\ nReq = 0
  /\ nEdit = 0
  /\ effect = [deps |-> "idle", interval |-> FALSE]
  /\ srv = [pc |-> "listening", req |-> 0, text |-> <<>>, raw |-> None,
            thrown |-> None, trace |-> <<>>, res |-> None]

\* ------------------------------------------------------------------ guards

\* mutant: the text is not trimmed before the test
hasText_NoTrim(c) == Len(c.text) > 0

hasText(c) == Len(Trim(c.text)) > 0

\* mutant: UNDO is not guarded
hasHistory_Always(c) == TRUE

hasHistory(c) == Len(c.history) > 0

\* mutant: the reveal counts as complete one character late
isTypingComplete_OneLate(c) ==
  IF IsNone(c.generatedText) \/ Get(c.generatedText) = <<>> THEN TRUE
  ELSE c.typingIndex > Len(Get(c.generatedText))

\* mutant: the reveal counts as complete one character early
isTypingComplete_OneEarly(c) ==
  IF IsNone(c.generatedText) \/ Get(c.generatedText) = <<>> THEN TRUE
  ELSE c.typingIndex + 1 >= Len(Get(c.generatedText))

isTypingComplete(c) ==
  IF IsNone(c.generatedText) \/ Get(c.generatedText) = <<>> THEN TRUE
  ELSE c.typingIndex >= Len(Get(c.generatedText))

\* ------------------------------------------------------------------ assigns

\* mutant: an UPDATE leaves the error as it is
updateText_KeepsError(c, evtText) ==
  [c EXCEPT !.text = OrElse(evtText, <<>>)]

updateText(c, evtText) ==
  [c EXCEPT !.text = OrElse(evtText, <<>>), !.error = None]

updateStats(c, evt) ==
  [c EXCEPT !.wordCount = evt.wordCount, !.charCount = evt.charCount]

\* mutant: ten entries are kept before the push
saveToHistory_KeepsTen(c) ==
  [c EXCEPT !.history = Append(SliceLast(c.history, 10), c.text)]

\* mutant: the first nine entries are kept, not the last nine
saveToHistory_KeepsOldest(c) ==
  [c EXCEPT !.history = Append(SubSeq(c.history, 1, Min(9, Len(c.history))), c.text)]

\* mutant: a text equal to the newest snapshot is not pushed again
saveToHistory_SkipsDuplicate(c) ==
  IF c.history # <<>> /\ c.history[Len(c.history)] = c.text THEN c
  ELSE [c EXCEPT !.history = Append(SliceLast(c.history, 9), c.text)]

saveToHistory(c) ==
  [c EXCEPT !.history = Append(SliceLast(c.history, 9), c.text)]

\* mutant: the error of the failed attempt is not cleared
prepareTyping_KeepsError(c, data) ==
  [c EXCEPT !.generatedText = Some(OrElse(data, <<>>)),
            !.typingIndex = 0]

prepareTyping(c, data) ==
  [c EXCEPT !.generatedText = Some(OrElse(data, <<>>)),
            !.typingIndex = 0,
            !.error = None]

\* mutant: entering typing does not set isTyping
startTyping_Unset(c) == c

startTyping(c) == [c EXCEPT !.isTyping = TRUE]

stopTyping(c) == [c EXCEPT !.isTyping = FALSE]

\* mutant: the character after the one at typingIndex is appended
typeNextChar_SkipsOne(c) ==
  IF IsNone(c.generatedText) \/ Get(c.generatedText) = <<>> THEN c
  ELSE LET newText == c.text \o CharAt(Get(c.generatedText), c.typingIndex + 1) IN
         [c EXCEPT !.text = newText,
                   !.typingIndex = c.typingIndex + 1,
                   !.wordCount = CountWords(newText),
                   !.charCount = Len(newText)]

typeNextChar(c) ==
  IF IsNone(c.generatedText) \/ Get(c.generatedText) = <<>> THEN c
  ELSE LET newText == c.text \o CharAt(Get(c.generatedText), c.typingIndex) IN
         [c EXCEPT !.text = newText,
                   !.typingIndex = c.typingIndex + 1,
                   !.wordCount = CountWords(newText),
                   !.charCount = Len(newText)]

completeTyping(c) ==
  [c EXCEPT !.generatedText = None, !.typingIndex = 0, !.isTyping = FALSE]

\* mutant: the whole continuation is appended, revealed prefix included
completeTypingImmediately_Whole(c) ==
  IF IsNone(c.generatedText) \/ Get(c.generatedText) = <<>>
    THEN [c EXCEPT !.isTyping = FALSE]
  ELSE LET finalText == c.text \o Get(c.generatedText) IN
         [c EXCEPT !.text = finalText,
                   !.wordCount = CountWords(finalText),
                   !.charCount = Len(finalText),
                   !.generatedText = None,
                   !.typingIndex = 0,
                   !.isTyping = FALSE]

completeTypingImmediately(c) ==
  IF IsNone(c.generatedText) \/ Get(c.generatedText) = <<>>
    THEN [c EXCEPT !.isTyping = FALSE]
  ELSE LET finalText == c.text \o SliceFrom(Get(c.generatedText), c.typingIndex) IN
         [c EXCEPT !.text = finalText,
                   !.wordCount = CountWords(finalText),
                   !.charCount = Len(finalText),
                   !.generatedText = None,
                   !.typingIndex = 0,
                   !.isTyping = FALSE]

\* mutant: the oldest snapshot is restored instead of the newest
undoText_Oldest(c) ==
  LET previousText ==
        IF Len(c.history) = 0 THEN <<>> ELSE c.history[1] IN
    [c EXCEPT !.text = previousText,
              !.wordCount = CountWords(previousText),
              !.charCount = Len(previousText),
              !.history = SubSeq(c.history, 1, Len(c.history) - 1)]

undoText(c) ==
  LET previousText ==
        IF Len(c.history) = 0 THEN <<>> ELSE c.history[Len(c.history)] IN
    [c EXCEPT !.text = previousText,
              !.wordCount = CountWords(previousText),
              !.charCount = Len(previousText),
              !.history = SubSeq(c.history, 1, Len(c.history) - 1)]

\* mutant: the pending continuation and its index are left as they are
clearText_KeepsPending(c) ==
  [c EXCEPT !.text = <<>>, !.wordCount = 0, !.charCount = 0, !.error = None,
            !.isTyping = FALSE]

\* mutant: the history is emptied too
clearText_ResetsHistory(c) ==
  [c EXCEPT !.text = <<>>, !.wordCount = 0, !.charCount = 0, !.error = None,
            !.generatedText = None, !.typingIndex = 0, !.isTyping = FALSE,
            !.history = <<>>]

clearText(c) ==
  [c EXCEPT !.text = <<>>, !.wordCount = 0, !.charCount = 0, !.error = None,
            !.generatedText = None, !.typingIndex = 0, !.isTyping = FALSE]

\* the message of the Error the service rejects with
generateContinuationError(f) ==
  LET thrown == IF f.kind = "http"
                  THEN IF IsNone(f.error) \/ Get(f.error) = ""
                         THEN "Failed to generate continuation"
                         ELSE Get(f.error)
                  ELSE f.message IN
    IF thrown = "" THEN "Unable to connect to AI service. Please try again."
    ELSE thrown

setError(c, message) ==
  [c EXCEPT !.error =
     Some(IF message = "" THEN "An error occurred. Please try again." ELSE message)]

\* ------------------------------------------------------------------ events

\* send(event): the machine takes the event; the component's effects run
\* later, after the render the new state causes
Sent(type) ==
  /\ lastEvent' = [type |-> type, from |-> state]
  /\ effect' = effect
  /\ srv' = srv

\* the budget of edits of a bounded exploration (edits = -1: unbounded)
MayEdit(B) == B.edits < 0 \/ nEdit < B.edits
Edited(B) == nEdit' = IF B.edits < 0 THEN nEdit ELSE nEdit + 1

\* entry to loading: the entry action, then the service is invoked
EnterLoading ==
  /\ state' = "loading"
  /\ ctx' = saveToHistory(ctx)
  /\ inflight' = inflight + 1
  /\ reveal' = Some([base |-> ctx.text, cont |-> None, ticks |-> 0,
                     by |-> IF state = "error" THEN "RETRY" ELSE "CONTINUE"])
  /\ snaps' = IF IsNone(snaps) THEN None ELSE Some(Append(Get(snaps), ctx.text))
  /\ nReq' = nReq + 1

Ignored == UNCHANGED <<state, ctx, inflight, reveal, snaps, nReq, nEdit>>

\* mutant: UPDATE is also handled in typing, where it replaces the text
Update_InTyping(B) ==
  \E t \in B.texts :
    /\ Sent("UPDATE")
    /\ IF state \in {"idle", "error"}
         THEN /\ MayEdit(B)
              /\ state' = "idle"
              /\ ctx' = updateText(ctx, Some(t))
              /\ reveal' = None
              /\ Edited(B)
              /\ UNCHANGED <<inflight, snaps, nReq>>
         ELSE IF state = "typing"
           THEN /\ ctx' = updateText(ctx, Some(t))
                /\ UNCHANGED <<state, inflight, reveal, snaps, nReq, nEdit>>
           ELSE Ignored

\* mutant: an UPDATE in error replaces the text and stays in error
Update_StaysInError(B) ==
  \E t \in B.texts :
    /\ Sent("UPDATE")
    /\ IF state \in {"idle", "error"}
         THEN /\ MayEdit(B)
              /\ state' = state
              /\ ctx' = [updateText(ctx, Some(t)) EXCEPT !.error = ctx.error]
              /\ reveal' = IF state = "error" THEN reveal ELSE None
              /\ Edited(B)
              /\ UNCHANGED <<inflight, snaps, nReq>>
         ELSE Ignored

Update(B) ==
  \E t \in B.texts :
    /\ Sent("UPDATE")
    /\ IF state \in {"idle", "error"}
         THEN /\ MayEdit(B)
              /\ state' = "idle"
              /\ ctx' = updateText(ctx, Some(t))
              /\ reveal' = None
              /\ Edited(B)
              /\ UNCHANGED <<inflight, snaps, nReq>>
         ELSE Ignored

UpdateStats(B) ==
  \E s \in B.stats :
    /\ Sent("UPDATE_STATS")
    /\ IF state \in {"idle", "error"}
         THEN /\ ctx' = updateStats(ctx, s)
              /\ UNCHANGED <<state, inflight, reveal, snaps, nReq, nEdit>>
         ELSE Ignored

\* mutant: CONTINUE is also handled in typing
Continue_InTyping(B) ==
  /\ Sent("CONTINUE")
  /\ IF state \in {"idle", "typing"} /\ hasText(ctx)
       THEN /\ nReq < B.requests
            /\ EnterLoading
            /\ UNCHANGED nEdit
       ELSE Ignored

Continue(B) ==
  /\ Sent("CONTINUE")
  /\ IF state = "idle" /\ hasText(ctx)
       THEN /\ nReq < B.requests
            /\ EnterLoading
            /\ UNCHANGED nEdit
       ELSE Ignored

\* mutant: RETRY is also handled in loading
Retry_InLoading(B) ==
  /\ Sent("RETRY")
  /\ IF state \in {"error", "loading"}
       THEN /\ nReq < B.requests
            /\ EnterLoading
            /\ UNCHANGED nEdit
       ELSE Ignored

Retry(B) ==
  /\ Sent("RETRY")
  /\ IF state = "error"
       THEN /\ nReq < B.requests
            /\ EnterLoading
            /\ UNCHANGED nEdit
       ELSE Ignored

Undo(B) ==
  /\ Sent("UNDO")
  /\ IF state = "idle" /\ hasHistory(ctx)
       THEN /\ MayEdit(B)
            /\ ctx' = undoText(ctx)
            /\ reveal' = None
            /\ snaps' = None
            /\ Edited(B)
            /\ UNCHANGED <<state, inflight, nReq>>
       ELSE Ignored

\* mutant: CLEAR is also handled in loading
Clear_InLoading(B) ==
  /\ Sent("CLEAR")
  /\ IF state \in {"idle", "error", "loading"}
       THEN /\ MayEdit(B)
            /\ state' = "idle"
            /\ ctx' = clearText(ctx)
            /\ reveal' = None
            /\ Edited(B)
            /\ UNCHANGED <<inflight, snaps, nReq>>
       ELSE IF state = "typing"
         THEN /\ MayEdit(B)
              /\ state' = "idle"
              /\ ctx' = clearText(stopTyping(ctx))
              /\ reveal' = None
              /\ Edited(B)
              /\ UNCHANGED <<inflight, snaps, nReq>>
         ELSE Ignored

Clear(B) ==
  /\ Sent("CLEAR")
  /\ IF state \in {"idle", "error"}
       THEN /\ MayEdit(B)
            /\ state' = "idle"
            /\ ctx' = clearText(ctx)
            /\ reveal' = None
            /\ Edited(B)
            /\ UNCHANGED <<inflight, snaps, nReq>>
       ELSE IF state = "typing"
         THEN /\ MayEdit(B)
              /\ state' = "idle"
              /\ ctx' = clearText(stopTyping(ctx))
              /\ reveal' = None
              /\ Edited(B)
              /\ UNCHANGED <<inflight, snaps, nReq>>
         ELSE Ignored

\* SAVE_HISTORY and TYPING_COMPLETE are declared event types that nothing
\* sends (editor.tsx sends neither, and dispatch's interface lists neither):
\* they are not dispatched.

\* mutant: the effect has no cleanup, the interval is never cleared
TypingEffect_NoCleanup ==
  /\ effect.deps # state
  /\ effect' = [deps |-> state, interval |-> effect.interval \/ state = "typing"]
  /\ UNCHANGED <<state, ctx, inflight, lastEvent, reveal, snaps, nReq, nEdit,
                 srv>>

\* the typing effect, run after a render in which state.value changed: the
\* cleanup of the previous run clears the interval, and the new run sets one
\* when the machine is in typing
\* mutant: the effect never sets the interval
TypingEffect_NeverSets ==
  /\ effect.deps # state
  /\ effect' = [deps |-> state, interval |-> FALSE]
  /\ UNCHANGED <<state, ctx, inflight, lastEvent, reveal, snaps, nReq, nEdit,
                 srv>>

TypingEffect ==
  /\ effect.deps # state
  /\ effect' = [deps |-> state, interval |-> state = "typing"]
  /\ UNCHANGED <<state, ctx, inflight, lastEvent, reveal, snaps, nReq, nEdit,
                 srv>>

\* a tick of the interval sends TYPE_NEXT_CHAR
TypeNextChar ==
  /\ effect.interval
  /\ Sent("TYPE_NEXT_CHAR")
  /\ IF state = "typing"
       THEN /\ IF isTypingComplete(ctx)
                 THEN /\ state' = "idle"
                      /\ ctx' = completeTyping(stopTyping(ctx))
                 ELSE /\ state' = "typing"
                      /\ ctx' = typeNextChar(ctx)
            /\ reveal' = Some([Get(reveal) EXCEPT !.ticks = @ + 1])
            /\ UNCHANGED <<inflight, snaps, nReq, nEdit>>
       ELSE Ignored

StopTyping ==
  /\ Sent("STOP_TYPING")
  /\ IF state = "typing"
       THEN /\ state' = "idle"
            /\ ctx' = completeTypingImmediately(stopTyping(ctx))
            /\ UNCHANGED <<inflight, reveal, snaps, nReq, nEdit>>
       ELSE Ignored

\* the body of the request in flight: { text: ctx.text } as the service
\* read it when it was invoked
RequestText == Get(reveal).base

\* the server's test of the request: !text || text.trim().length === 0
textIsRequired(text) == Len(Trim(text)) = 0

\* the server answers a blank text, and only a blank text, with this error
AnswersRequest(f) ==
  f.kind = "http" =>
    (textIsRequired(RequestText)
       <=> f.error = Some("Text is required to continue writing"))

\* the invoked promise resolves: onDone
ServiceDone(B) ==
  \E data \in B.conts :
    /\ state = "loading"
    /\ inflight > 0
    /\ B.mock = "any" \/ nReq >= 2
    /\ ~textIsRequired(RequestText)
    /\ Sent("done.invoke.continueWriter")
    /\ state' = "typing"
    /\ ctx' = startTyping(prepareTyping(ctx, data))
    /\ inflight' = inflight - 1
    /\ reveal' = Some([Get(reveal) EXCEPT !.cont = Some(OrElse(data, <<>>))])
    /\ UNCHANGED <<snaps, nReq, nEdit>>

\* the invoked promise rejects: onError
ServiceFail(B) ==
  \E f \in B.failures :
    /\ state = "loading"
    /\ inflight > 0
    /\ B.mock = "any" \/ nReq = 1
    /\ AnswersRequest(f)
    /\ MayEdit(B)
    /\ Sent("error.platform.continueWriter")
    /\ state' = "error"
    /\ ctx' = setError(ctx, generateContinuationError(f))
    /\ inflight' = inflight - 1
    /\ snaps' = None
    /\ Edited(B)
    /\ UNCHANGED <<reveal, nReq>>

Next ==
  \/ Update(Wide)
  \/ UpdateStats(Wide)
  \/ Continue(Wide)
  \/ Retry(Wide)
  \/ Undo(Wide)
  \/ Clear(Wide)
  \/ TypingEffect
  \/ TypeNextChar
  \/ StopTyping
  \/ ServiceDone(Wide)
  \/ ServiceFail(Wide)

Spec == Init /\ [][Next]_vars

NextHistory ==
  \/ Update(Deep)
  \/ UpdateStats(Deep)
  \/ Continue(Deep)
  \/ Retry(Deep)
  \/ Undo(Deep)
  \/ Clear(Deep)
  \/ TypingEffect
  \/ TypeNextChar
  \/ StopTyping
  \/ ServiceDone(Deep)
  \/ ServiceFail(Deep)

SpecHistory == Init /\ [][NextHistory]_vars

\* the events of the retry scenario: the user edits, asks for a continuation
\* and retries; the promise settles; the interval of the typing effect ticks
NextRetry ==
  \/ Update(FailsOnce)
  \/ Continue(FailsOnce)
  \/ Retry(FailsOnce)
  \/ TypingEffect
  \/ TypeNextChar
  \/ ServiceDone(FailsOnce)
  \/ ServiceFail(FailsOnce)

SpecRetry ==
  /\ Init
  /\ [][NextRetry]_vars
  /\ WF_vars(ServiceDone(FailsOnce) \/ ServiceFail(FailsOnce))
  /\ WF_vars(TypingEffect)
  /\ WF_vars(TypeNextChar)

\* every event of the machine, with the promise settling, the typing effect
\* running after the render and the interval ticking while it is set
NextLive ==
  \/ Update(Live)
  \/ UpdateStats(Live)
  \/ Continue(Live)
  \/ Retry(Live)
  \/ Undo(Live)
  \/ Clear(Live)
  \/ TypingEffect
  \/ TypeNextChar
  \/ StopTyping
  \/ ServiceDone(Live)
  \/ ServiceFail(Live)

SpecLive ==
  /\ Init
  /\ [][NextLive]_vars
  /\ WF_vars(ServiceDone(Live) \/ ServiceFail(Live))
  /\ WF_vars(TypingEffect)
  /\ WF_vars(TypeNextChar)

\* ------------------------------------------------------ client and server

Machine == <<state, ctx, inflight, lastEvent, reveal, snaps, nReq, nEdit, effect>>

\* the handler receives the request in flight and validates its text
PostContinueWriting ==
  /\ inflight > 0
  /\ srv.req < nReq
  /\ srv' = IF textIsRequired(RequestText)
              THEN [pc |-> "responded", req |-> nReq, text |-> RequestText,
                    raw |-> None, thrown |-> None, trace |-> <<>>,
                    res |-> Some(Response(400, None,
                                  Some("Text is required to continue writing")))]
              ELSE [pc |-> "generating", req |-> nReq, text |-> RequestText,
                    raw |-> None, thrown |-> None, trace |-> <<>>,
                    res |-> None]
  /\ UNCHANGED Machine

\* generating returns: the stages run and the handler responds
GenerateContent ==
  \E raw \in Raws(srv.text) :
    /\ srv.pc = "generating"
    /\ srv' = [srv EXCEPT !.pc = "responded",
                          !.raw = Some(raw),
                          !.trace = stages(srv.text, raw),
                          !.res = Some(Response(200, Some(clean(srv.text, raw)),
                                                None))]
    /\ UNCHANGED Machine

\* generating throws: the catch block responds
GenerateContentThrows ==
  \E error \in ProviderErrors :
    /\ srv.pc = "generating"
    /\ srv' = [srv EXCEPT !.pc = "responded",
                          !.thrown = Some(error),
                          !.res = Some(catchError(error))]
    /\ UNCHANGED Machine

\* the handler has answered the request in flight
Responded == inflight > 0 /\ srv.pc = "responded" /\ srv.req = nReq

\* what fetch gives the service: the answer of the handler, or a rejection
\* when no answer arrives
Served ==
  [requests |-> ServedRequests, edits |-> ServedEdits, mock |-> "any",
   texts |-> Originals, stats |-> {},
   conts |-> IF Responded /\ Get(srv.res).status = 200
               THEN {Get(srv.res).text} ELSE {},
   failures |-> (IF Responded /\ Get(srv.res).status # 200
                   THEN {[kind |-> "http", error |-> Get(srv.res).error]}
                   ELSE {})
                \cup {[kind |-> "network", message |-> "Failed to fetch"]}]

\* the exchange with the server: the user types a text, asks for a
\* continuation and retries; the handler answers; the promise settles
NextServer ==
  \/ Update(Served)
  \/ Continue(Served)
  \/ Retry(Served)
  \/ PostContinueWriting
  \/ GenerateContent
  \/ GenerateContentThrows
  \/ ServiceDone(Served)
  \/ ServiceFail(Served)

SpecServer == Init /\ [][NextServer]_vars

\* ------------------------------------------------------------------ claims

Was(type, from) == lastEvent = [type |-> type, from |-> from]
\* the step dispatches the event (a run of the effect or a step of the
\* server dispatches nothing)
Is(type) ==
  /\ lastEvent' = [type |-> type, from |-> state]
  /\ effect' = effect
  /\ srv' = srv

\* the text a reveal must end with: the text on entry to loading followed
\* by the continuation the service delivered
Revealed == Get(reveal).base \o Get(Get(reveal).cont)
HasContinuation == ~IsNone(reveal) /\ ~IsNone(Get(reveal).cont)

\* C1: a CONTINUE dispatched in loading or typing changes neither the state,
\* nor any field of the context, nor the outstanding request.
C1_SingleFlight ==
  [][(Is("CONTINUE") /\ state \in {"loading", "typing"})
       => (state' = state /\ ctx' = ctx /\ inflight' = inflight)]_vars

C1_Witness ==
  /\ Was("CONTINUE", "typing")
  /\ state = "typing"
  /\ ctx.typingIndex = 1

\* C2: at most one request is in flight, one is in flight exactly when the
\* machine is in loading, and every entry to loading is made by CONTINUE or
\* RETRY and starts exactly one request.
C2_AtMostOneRequest ==
  /\ [](inflight \in {0, 1} /\ (inflight = 1 <=> state = "loading"))
  /\ [][(state # "loading" /\ state' = "loading")
          => /\ Is("CONTINUE") \/ Is("RETRY")
             /\ inflight' = inflight + 1]_vars

C2_Witness ==
  /\ Was("RETRY", "error")
  /\ state = "loading"
  /\ inflight = 1

\* C3: when a reveal runs by ticks alone, the text after the tick that
\* appends the last character and the text once the machine is back in idle
\* are the text on entry to loading followed by the continuation.
C3_RevealCompleteText ==
  /\ (state = "typing" /\ ctx.typingIndex = Len(Get(ctx.generatedText)))
       => (HasContinuation /\ ctx.text = Revealed)
  /\ (state = "idle" /\ Was("TYPE_NEXT_CHAR", "typing"))
       => (HasContinuation /\ ctx.text = Revealed)

C3_Witness ==
  /\ state = "idle"
  /\ Was("TYPE_NEXT_CHAR", "typing")
  /\ Get(Get(reveal).cont) = <<" ", "b">>

\* C4 as stated: after the Nth tick of a reveal of N characters the machine
\* is in idle.
C4_IdleAfterNTicks ==
  (HasContinuation /\ Was("TYPE_NEXT_CHAR", "typing")
     /\ Get(reveal).ticks = Len(Get(Get(reveal).cont)))
    => state = "idle"

\* C4 (amended): a reveal of N characters takes N + 1 ticks: after each of
\* the first N the machine is still in typing (after the Nth with the whole
\* continuation appended), and after tick N + 1 it is in idle.
C4_IdleAfterNPlusOneTicks ==
  (HasContinuation /\ Was("TYPE_NEXT_CHAR", "typing"))
    => LET N == Len(Get(Get(reveal).cont))
           k == Get(reveal).ticks IN
         /\ k \in 1..(N + 1)
         /\ k <= N => (state = "typing" /\ ctx.typingIndex = k)
         /\ k = N => ctx.text = Revealed
         /\ k = N + 1 => (state = "idle" /\ ctx.text = Revealed)

C4_Witness ==
  /\ HasContinuation
  /\ Was("TYPE_NEXT_CHAR", "typing")
  /\ Len(Get(Get(reveal).cont)) = 2
  /\ Get(reveal).ticks = 3
  /\ state = "idle"

\* C5: STOP_TYPING dispatched in typing after any number of ticks ends in
\* idle with the text on entry to loading followed by the whole continuation,
\* the text a reveal by ticks alone ends with.
C5_SkipToEnd ==
  Was("STOP_TYPING", "typing")
    => (state = "idle" /\ HasContinuation /\ ctx.text = Revealed)

C5_Witness ==
  /\ Was("STOP_TYPING", "typing")
  /\ Len(Get(Get(reveal).cont)) = 2
  /\ Get(reveal).ticks = 1

\* C8: an UNDO handled in idle restores the newest snapshot and removes
\* exactly that entry from the end of the history; right after a completed
\* reveal the restored text is the text the continuation started from.
C8_UndoRestoresLastSnapshot ==
  [][(Is("UNDO") /\ state = "idle" /\ Len(ctx.history) > 0)
       => /\ state' = "idle"
          /\ ctx'.text = ctx.history[Len(ctx.history)]
          /\ ctx'.history = SubSeq(ctx.history, 1, Len(ctx.history) - 1)
          /\ HasContinuation => ctx'.text = Get(reveal).base]_vars

C8_Witness ==
  /\ Was("UNDO", "idle")
  /\ ctx.text = <<"a", "b">>
  /\ ctx.history = << <<"a">> >>

\* C6: the history never holds more than 10 entries.
C6_HistoryAtMostTen == Len(ctx.history) <= 10

C6_Witness ==
  /\ Len(ctx.history) = 10
  /\ nReq = 12

\* C7: while no UNDO and no failure has happened, the history is the last
\* min(n, 10) of the n texts snapshotted on the entries to loading, in the
\* order they were taken.
C7_HistoryIsLastTenSnapshots ==
  ~IsNone(snaps) =>
    /\ Len(Get(snaps)) = nReq
    /\ ctx.history = SliceLast(Get(snaps), 10)

C7_Witness ==
  /\ ~IsNone(snaps)
  /\ nReq = 12
  /\ state = "idle"
  /\ Len(ctx.history) = 10
  /\ \A i \in 1..10 : Len(ctx.history[i]) = i + 2

\* C9: the first request fails and leaves the machine in error with a
\* non-empty message; the retried request, once its result and the ticks
\* are delivered, ends in idle with the text on entry to loading followed by
\* the continuation and no error message.
C9_ErrorThenRetry ==
  /\ [](Was("error.platform.continueWriter", "loading")
          => (state = "error" /\ ~IsNone(ctx.error) /\ Get(ctx.error) # ""))
  /\ (state = "loading" /\ nReq = 1) ~> (state = "error")
  /\ (state = "loading" /\ Was("RETRY", "error"))
       ~> (state = "idle" /\ HasContinuation /\ ctx.text = Revealed
             /\ IsNone(ctx.error))

C9_Witness ==
  /\ state = "idle"
  /\ Was("TYPE_NEXT_CHAR", "typing")
  /\ nReq = 2
  /\ ctx.history = << <<"a">>, <<"a">> >>
  /\ ctx.text = <<"a", " ", "b">>
  /\ IsNone(ctx.error)

\* C10 as stated: charCount is the length of text and wordCount the number
\* of its whitespace-delimited words, in every reachable state.
C10_CountsFollowText ==
  /\ ctx.charCount = Len(ctx.text)
  /\ ctx.wordCount = CountWords(ctx.text)

\* C11: a CONTINUE dispatched in idle with a blank text changes nothing,
\* every entry to loading is made with a text that is not blank, and the
\* message of the error state is never the server's empty-input error.
C11_NeverInvokedWithBlankText ==
  /\ [][(Is("CONTINUE") /\ state = "idle" /\ Trim(ctx.text) = <<>>)
          => (state' = state /\ ctx' = ctx /\ inflight' = inflight)]_vars
  /\ [][(state # "loading" /\ state' = "loading")
          => (Trim(ctx'.text) # <<>> /\ Trim(Get(reveal').base) # <<>>)]_vars
  /\ [](state = "error"
          => ctx.error # Some("Text is required to continue writing"))

C11_Witness ==
  /\ Was("CONTINUE", "idle")
  /\ state = "idle"
  /\ ctx.text = <<" ">>

\* C12: a CLEAR dispatched in idle, typing or error ends in idle with an
\* empty text, both counts 0, no error, no pending continuation, index 0 and
\* isTyping false; a tick or a STOP_TYPING that follows appends nothing.
C12_ClearResets ==
  /\ [](\A s \in {"idle", "typing", "error"} :
          Was("CLEAR", s)
            => /\ state = "idle"
               /\ ctx.text = <<>>
               /\ ctx.wordCount = 0
               /\ ctx.charCount = 0
               /\ IsNone(ctx.error)
               /\ IsNone(ctx.generatedText)
               /\ ctx.typingIndex = 0
               /\ ctx.isTyping = FALSE)
  /\ [][(Was("CLEAR", "typing") /\ (Is("TYPE_NEXT_CHAR") \/ Is("STOP_TYPING")))
          => (state' = state /\ ctx' = ctx)]_vars

C12_Witness ==
  /\ Was("CLEAR", "typing")
  /\ state = "idle"
  /\ ctx.text = <<>>
  /\ ctx.history = << <<"a">> >>

\* C13 as stated: after a CLEAR every field of the context, the history
\* included, has its initial value.
C13_ClearRestoresInitialContext ==
  \A s \in {"idle", "typing", "error"} :
    Was("CLEAR", s) => (state = "idle" /\ ctx = context)

\* C13 (amended): a CLEAR gives every field of the context except history
\* its initial value and leaves history as it was.
C13_ClearKeepsHistory ==
  [][(Is("CLEAR") /\ state \in {"idle", "typing", "error"})
       => /\ state' = "idle"
          /\ ctx' = [context EXCEPT !.history = ctx.history]]_vars

C13_Witness ==
  /\ Was("CLEAR", "idle")
  /\ Len(ctx.history) = 2
  /\ ctx.text = <<>>

\* C14: while a continuation is pending the index is between 0 and its
\* length, and a tick that advances the index read a character before the
\* end of the continuation.
C14_IndexWithinContinuation ==
  /\ [](~IsNone(ctx.generatedText)
          => ctx.typingIndex \in 0..Len(Get(ctx.generatedText)))
  /\ [][(Is("TYPE_NEXT_CHAR") /\ state = "typing"
           /\ ctx'.typingIndex = ctx.typingIndex + 1)
          => ctx.typingIndex < Len(Get(ctx.generatedText))]_vars

C14_Witness ==
  /\ state = "typing"
  /\ Was("TYPE_NEXT_CHAR", "typing")
  /\ Len(Get(ctx.generatedText)) = 2
  /\ ctx.typingIndex = 2

\* the handler answered with a continuation: what generating returned and
\* the text of the response
Answered == srv.pc = "responded" /\ ~IsNone(srv.raw)
Raw == Get(srv.raw)
Cleaned == Get(Get(srv.res).text)

\* C15: when the raw continuation begins with a case-insensitive copy of
\* the whole original, the response is the text after the copy, with its
\* leading punctuation and whitespace stripped, trimmed, and re-spaced.
C15_FullEchoRemoved ==
  (Answered /\ startsWith(toLowerCase(Raw), toLowerCase(srv.text)))
    => Cleaned = EnsureSpacing(srv.text,
                               CleanUp(SliceFrom(Raw, Len(srv.text))))

\* the word runs of the original the raw continuation begins with
WordRuns(text, raw) ==
  LET words == split(Trim(text), Whitespace) IN
    {w \in 3..Min(20, Len(words)) :
       startsWith(toLowerCase(raw), toLowerCase(lastNWords(words, w)))}

\* C16: when the raw continuation begins with the last w words of the
\* original for some w from 3 to min(20, number of words), the continuation
\* after stage 2 is the raw continuation without the run of the largest
\* such w, trimmed.
C16_WordRunRemoved ==
  (Answered /\ WordRuns(srv.text, Raw) # {})
    => srv.trace[3]
         = Trim(SliceFrom(Raw,
              Len(lastNWords(split(Trim(srv.text), Whitespace),
                             SetMax(WordRuns(srv.text, Raw))))))

\* no stage finds at the front of the continuation the whole text, a run of
\* its last words, 10 or more of its last characters, or its last sentences
NoEcho(text, raw) ==
  LET c == toLowerCase(Trim(raw))
      words == split(Trim(text), Whitespace)
      sentences == filterTrim(split(text, {".", "!", "?"})) IN
    /\ ~startsWith(c, Trim(toLowerCase(text)))
    /\ \A w \in 3..Min(20, Len(words)) :
         ~startsWith(c, toLowerCase(lastNWords(words, w)))
    /\ \A i \in 10..Min(Len(text), Len(c)) :
         toLowerCase(SliceLast(text, i)) # SubSeq(c, 1, i)
    /\ \A k \in 1..Len(sentences) :
         ~startsWith(c, toLowerCase(lastSentences(sentences, k)))

\* C17: when no stage finds an echo of the original at the front of the raw
\* continuation, the response is the raw continuation, trimmed, with its
\* leading '.', ',', ';', ':' and whitespace stripped, and re-spaced.
C17_NoFalseMatch ==
  (Answered /\ NoEcho(srv.text, Raw))
    => Cleaned = EnsureSpacing(srv.text, CleanUp(Trim(Raw)))

C17_Witness ==
  /\ Answered
  /\ srv.text = Chars("Hello world")
  /\ Raw = Chars("Goodbye moon.")
  /\ Cleaned = Chars(" Goodbye moon.")

\* C18: when the cleaned continuation holds no echo of the original at its
\* front, cleaning it again gives the same text.
C18_Idempotent ==
  (Answered /\ NoEcho(srv.text, Cleaned))
    => clean(srv.text, Cleaned) = Cleaned

C18_Witness ==
  /\ Answered
  /\ srv.text = Chars("I love the quiet morning air")
  /\ Raw = Chars("morning air ... and more")
  /\ Cleaned = Chars(" and more")
  /\ NoEcho(srv.text, Cleaned)

AuthError == "Invalid API key. Please check your Gemini API key."
QuotaError == "API quota exceeded. Please try again later."
UpstreamError == "Failed to generate continuation. Please try again."

\* generating threw an error whose message has the phrase
Thrown == ~IsNone(srv.thrown)
Reports(phrase) ==
  /\ ~IsNone(Get(srv.thrown).message)
  /\ includes(Get(Get(srv.thrown).message), Chars(phrase))

\* C19 as stated: a failure that reports an API key problem is answered
\* with 401, one that reports quota with 429, any other with 500, and in
\* state error the stored message is one of the three classified messages.
C19_EveryFailureIsClassified ==
  /\ (Thrown /\ Reports("API key"))
       => Get(srv.res) = Response(401, None, Some(AuthError))
  /\ (Thrown /\ Reports("quota"))
       => Get(srv.res) = Response(429, None, Some(QuotaError))
  /\ (Thrown /\ ~Reports("API key") /\ ~Reports("quota"))
       => Get(srv.res) = Response(500, None, Some(UpstreamError))
  /\ state = "error" => ctx.error \in {Some(AuthError), Some(QuotaError),
                                       Some(UpstreamError)}

\* C19: a failure whose message has 'API key' is answered with 401, one
\* whose message has 'quota' and not 'API key' with 429, any other with 500;
\* on the transition from loading to error the stored message is the one
\* the server answered with, or the message of the failed fetch when the
\* request itself failed.
C19_ServerFailureIsClassified ==
  /\ [](Thrown =>
          Get(srv.res) =
            IF Reports("API key") THEN Response(401, None, Some(AuthError))
            ELSE IF Reports("quota") THEN Response(429, None, Some(QuotaError))
            ELSE Response(500, None, Some(UpstreamError)))
  /\ [][(state = "loading" /\ state' = "error")
          => \/ /\ Responded /\ Thrown
                /\ ctx'.error = Get(srv.res).error
                /\ ctx'.error \in {Some(AuthError), Some(QuotaError),
                                   Some(UpstreamError)}
             \/ ctx'.error = Some("Failed to fetch")]_vars

C19_Witness ==
  /\ state = "error"
  /\ ctx.error = Some(QuotaError)
  /\ Thrown
  /\ Get(srv.thrown).message = Some(Chars("You exceeded your current quota"))

\* C20: a TYPE_NEXT_CHAR delivered while the machine is not in typing
\* changes neither the state nor the context nor the request, and once the
\* typing effect has run for the current state its interval is set exactly
\* when the machine is in typing.
C20_StaleTickIgnored ==
  /\ [][(Is("TYPE_NEXT_CHAR") /\ state # "typing")
          => (state' = state /\ ctx' = ctx /\ inflight' = inflight)]_vars
  /\ [](effect.deps = state => (effect.interval <=> state = "typing"))

C20_Witness ==
  /\ Was("TYPE_NEXT_CHAR", "loading")
  /\ state = "loading"
  /\ effect.interval
  /\ nReq = 2

\* the events a user or the interval dispatches
Dispatched ==
  {"UPDATE", "CONTINUE", "UNDO", "CLEAR", "RETRY", "STOP_TYPING",
   "TYPE_NEXT_CHAR"}

\* C21: an event dispatched in loading changes neither the state, nor the
\* context, nor the request in flight; the machine leaves loading only by
\* the settling of the one request in flight, and a request is in flight
\* exactly while the machine is in loading.
C21_LoadingFrame ==
  /\ [][(state = "loading" /\ \E e \in Dispatched : Is(e))
          => (state' = state /\ ctx' = ctx /\ inflight' = inflight)]_vars
  /\ [][(state = "loading" /\ state' # "loading")
          => /\ Is("done.invoke.continueWriter")
                  \/ Is("error.platform.continueWriter")
             /\ inflight = 1
             /\ inflight' = 0]_vars
  /\ [](inflight = IF state = "loading" THEN 1 ELSE 0)

C21_Witness ==
  /\ Was("CLEAR", "loading")
  /\ state = "loading"
  /\ inflight = 1
  /\ ctx.text = <<"a">>

\* the stage that took the continuation from before to after removed
\* nothing, or removed from its front a case-insensitive copy of one of the
\* echoes and trimmed the rest
RemovedEcho(before, after, echoes) ==
  \/ after = before
  \/ \E e \in echoes :
       /\ startsWith(toLowerCase(before), toLowerCase(e))
       /\ after = Trim(SliceFrom(before, Len(e)))

\* the tail material of the text each stage looks for
FullText(text) == {Trim(text)}
TrailingWordRuns(text) ==
  LET words == split(Trim(text), Whitespace) IN
    {lastNWords(words, w) : w \in 3..Min(20, Len(words))}
TrailingCharacters(text) ==
  {SliceLast(text, i) : i \in minMatchLength..Len(text)}
TrailingSentences(text) ==
  LET sentences == filterTrim(split(text, {".", "!", "?"})) IN
    {lastSentences(sentences, k) : k \in 1..Len(sentences)}

\* C22: each of the stages 1 to 4 changes the continuation only by removing
\* from the front of the continuation as it stands at that stage a
\* case-insensitive copy of the tail material of the text it looks for.
C22_StagesTestCurrentContinuation ==
  Answered =>
    /\ RemovedEcho(srv.trace[1], srv.trace[2], FullText(srv.text))
    /\ RemovedEcho(srv.trace[2], srv.trace[3], TrailingWordRuns(srv.text))
    /\ RemovedEcho(srv.trace[3], srv.trace[4], TrailingCharacters(srv.text))
    /\ RemovedEcho(srv.trace[4], srv.trace[5], TrailingSentences(srv.text))

\* the response without the space the spacing may have prepended
Unspaced(cleaned) ==
  IF cleaned # <<>> /\ Head(cleaned) = " " THEN Tail(cleaned) ELSE cleaned

\* C23: the response, without its prepended space, is an end of the trimmed
\* raw continuation, character for character in the casing of the raw
\* continuation.
C23_SuffixOfRaw ==
  Answered => endsWith(Trim(Raw), Unspaced(Cleaned))

C23_Witness ==
  /\ Answered
  /\ srv.text = Chars("I love the quiet morning air")
  /\ Raw = Chars("quiet morning air Then it slept.")
  /\ Cleaned = Chars(" Then it slept.")

SentencePunctuation == {".", ",", "!", "?", ";", ":"}

\* C24: a non-empty response is the continuation after the cleanup with one
\* space before it when the text does not end with a space and the
\* continuation does not begin with punctuation, and without a space
\* otherwise; an empty continuation gives an empty response.
C24_Respaced ==
  Answered =>
    LET cleaned == srv.trace[6]
        spaced == /\ srv.text[Len(srv.text)] # " "
                  /\ cleaned[1] \notin SentencePunctuation IN
      /\ cleaned = <<>> => Cleaned = <<>>
      /\ (cleaned # <<>> /\ spaced)
           => /\ Head(Cleaned) = " "
              /\ Tail(Cleaned) = cleaned
              /\ cleaned[1] # " "
      /\ (cleaned # <<>> /\ ~spaced) => Cleaned = cleaned

C24_Witness ==
  /\ Answered
  /\ srv.text = Chars("Hello world")
  /\ Raw = Chars("! So?")
  /\ Cleaned = Chars("! So?")

\* C25: isTyping is true exactly when the machine is in typing, and the
\* step that leaves typing leaves it false.
C25_IsTypingIffTyping ==
  /\ [](ctx.isTyping <=> state = "typing")
  /\ [][(state = "typing" /\ state' # "typing") => ~ctx'.isTyping]_vars

C25_Witness ==
  /\ Was("STOP_TYPING", "typing")
  /\ state = "idle"
  /\ ~ctx.isTyping
  /\ HasContinuation

\* C26: in every state other than typing the pending continuation is
\* absent (null) and the reveal index is 0.
C26_RevealFieldsCleared ==
  state # "typing" => (IsNone(ctx.generatedText) /\ ctx.typingIndex = 0)

\* C27: every entry to loading pushes one snapshot of the current text and
\* leaves the text as it is; right after a RETRY the last two entries of
\* the history both equal the text; and an UNDO after the continuation of a
\* retried attempt has completed restores the text the continuation
\* started from and leaves an equal snapshot as the newest entry.
C27_RetryPushesAnotherSnapshot ==
  /\ [][(state # "loading" /\ state' = "loading")
          => /\ Is("CONTINUE") \/ Is("RETRY")
             /\ ctx'.history = Append(SliceLast(ctx.history, 9), ctx.text)
             /\ ctx'.text = ctx.text]_vars
  /\ []((state = "loading" /\ Was("RETRY", "error"))
          => /\ Len(ctx.history) >= 2
             /\ ctx.history[Len(ctx.history)] = ctx.text
             /\ ctx.history[Len(ctx.history) - 1] = ctx.text)
  /\ [][(Is("UNDO") /\ state = "idle" /\ HasContinuation
           /\ Get(reveal).by = "RETRY")
          => /\ ctx'.text = Get(reveal).base
             /\ ctx'.history # <<>>
             /\ ctx'.history[Len(ctx'.history)] = ctx'.text]_vars

C27_Witness ==
  /\ state = "loading"
  /\ Was("RETRY", "error")
  /\ ctx.history = << <<"a">>, <<"a">> >>
  /\ ctx.text = <<"a">>

\* C28: an UNDO dispatched anywhere but in idle with a non-empty history
\* changes neither the state, nor the context, nor the request in flight.
C28_UndoGuarded ==
  [][(Is("UNDO") /\ ~(state = "idle" /\ Len(ctx.history) > 0))
       => (state' = state /\ ctx' = ctx /\ inflight' = inflight)]_vars

C28_Witness ==
  /\ Was("UNDO", "idle")
  /\ state = "idle"
  /\ ctx.history = <<>>
  /\ ctx.text = <<"a">>

\* C29: in error the stored error is a non-empty message and the text is
\* the text the failed attempt entered loading with, which is the newest
\* entry of the history; a RETRY invokes the service with that text.
C29_FailureLeavesTextUntouched ==
  /\ [](state = "error"
          => /\ ~IsNone(ctx.error)
             /\ Get(ctx.error) # ""
             /\ ctx.text = Get(reveal).base
             /\ ctx.history # <<>>
             /\ ctx.history[Len(ctx.history)] = ctx.text)
  /\ [][(Is("RETRY") /\ state = "error")
          => /\ state' = "loading"
             /\ ctx'.text = ctx.text
             /\ Get(reveal').base = Get(reveal).base]_vars

C29_Witness ==
  /\ state = "error"
  /\ Was("UPDATE_STATS", "error")
  /\ ctx.text = <<"a">>
  /\ ctx.history = << <<"a">> >>
  /\ ctx.error = Some("Failed to fetch")

\* C30: when the promise settles, the typing effect runs and the interval
\* ticks, loading is always followed by typing or error and typing by idle;
\* in error an UPDATE or a CLEAR leads to idle and a RETRY to loading, and
\* a CLEAR that leads to idle can always be dispatched there.
C30_NoDeadEnd ==
  /\ (state = "loading") ~> (state \in {"typing", "error"})
  /\ (state = "typing") ~> (state = "idle")
  /\ [][(state = "error" /\ (Is("UPDATE") \/ Is("CLEAR")))
          => state' = "idle"]_vars
  /\ [][(state = "error" /\ Is("RETRY")) => state' = "loading"]_vars
  /\ [](state = "error" => ENABLED (Clear(Live) /\ state' = "idle"))

C30_Witness ==
  /\ state = "idle"
  /\ Was("TYPE_NEXT_CHAR", "typing")
  /\ HasContinuation
  /\ Get(reveal).by = "RETRY"
  /\ ctx.text = <<"a", "b">>

\* C31: in typing the history is not empty and the text is its newest
\* entry followed by the first typingIndex characters of the pending
\* continuation; only a TYPE_NEXT_CHAR, a STOP_TYPING or a CLEAR changes
\* the text in typing.
C31_TextIsSnapshotPlusPrefix ==
  /\ [](state = "typing"
          => /\ ctx.history # <<>>
             /\ ~IsNone(ctx.generatedText)
             /\ ctx.text = ctx.history[Len(ctx.history)]
                             \o SubSeq(Get(ctx.generatedText), 1, ctx.typingIndex))
  /\ [][(state = "typing" /\ ctx'.text # ctx.text)
          => (Is("TYPE_NEXT_CHAR") \/ Is("STOP_TYPING") \/ Is("CLEAR"))]_vars

C31_Witness ==
  /\ state = "typing"
  /\ Was("UPDATE", "typing")
  /\ ctx.history = << <<"a">> >>
  /\ ctx.generatedText = Some(<<" ", "b">>)
  /\ ctx.typingIndex = 1
  /\ ctx.text = <<"a", " ">>

\* C32: in idle and in typing no error is stored; in loading an error is
\* stored only when loading was entered by a RETRY, and the step that leaves
\* error for idle or that enters typing leaves no error.
C32_NoLeftoverError ==
  /\ [](state \in {"idle", "typing"} => IsNone(ctx.error))
  /\ []((state = "loading" /\ ~IsNone(ctx.error)) => Get(reveal).by = "RETRY")
  /\ [][(state = "error" /\ state' = "loading")
          => (Is("RETRY") /\ ctx'.error = ctx.error)]_vars

C32_Witness ==
  /\ state = "idle"
  /\ Was("UPDATE", "error")
  /\ IsNone(ctx.error)
  /\ ctx.text = <<"a">>
  /\ ctx.history = << <<"a">> >>

====
